---- MODULE Spec2Model ----
(***************************************************************************)
(* Model of the input_timetable entity (src/__init__.py): one              *)
(* InputTimeTable instance, the host's state machine it writes to, the     *)
(* host's one-shot timers it arms, and the wall clock.                     *)
(*                                                                         *)
(* A time of day (datetime.time, naive, whole seconds) is the number of    *)
(* seconds since midnight; an instant (datetime.datetime) is               *)
(* date * SecondsPerDay + time.  datetime orders both lexicographically,   *)
(* which is the order of these integers.  Dates are counted from the       *)
(* current day: today is date 0, tomorrow date 1, and when the clock       *)
(* passes midnight every instant held moves one day closer.                *)
(***************************************************************************)
EXTENDS Integers, Sequences, FiniteSets, TLC

(* ------------------------------ bounds -------------------------------- *)

\* The clock is observed at TicksPerDay evenly spaced times of day, and these
\* are also the times the service calls and the snapshot may name.
TicksPerDay == 3

\* Longest restart snapshot the host supplies.
MaxSnapshot == 2

\* Longest list handed to reconfig.
MaxReconfig == 2

(* ----------------------------- constants ------------------------------ *)

SecondsPerDay == 86400

MIDNIGHT == 0

STATE_ON == "on"

STATE_OFF == "off"

None == "None"

TickSeconds == SecondsPerDay \div TicksPerDay

DayTimes == {k * TickSeconds : k \in 0..(TicksPerDay - 1)}

States == {STATE_ON, STATE_OFF}

(* --------------------------- datetime helpers -------------------------- *)

\* now.time()
time_of(dt) == dt % SecondsPerDay

\* now.date()
date_of(dt) == dt \div SecondsPerDay

\* datetime.datetime.combine(date, time)
combine(date, time) == date * SecondsPerDay + time

\* datetime.time.isoformat() of a whole-second naive time: "HH:MM:SS",
\* written as its three fields <<HH, MM, SS>>.
isoformat(time) == << time \div 3600, (time \div 60) % 60, time % 60 >>

\* datetime.time.fromisoformat() of an "HH:MM:SS" string.
fromisoformat(str) == str[1] * 3600 + str[2] * 60 + str[3]

(* ------------------------------ StateEvent ----------------------------- *)

StateEvent(time, state) == [time |-> time, state |-> state]

Events == [time : DayTimes, state : States]

\* One entry of the "timetable" attribute.
Attribute(time, state) == [time |-> isoformat(time), state |-> state]

Attributes == {Attribute(t, s) : t \in DayTimes, s \in States}

SeqsUpTo(S, n) == UNION {[1..k -> S] : k \in 0..n}

(* -------------------------- pure list operations ----------------------- *)

\* list.sort(key=lambda event: event.time): a stable sort, so events of
\* equal time keep their relative order.
RECURSIVE sort_insert(_, _)
sort_insert(sorted, event) ==
    IF sorted = <<>> THEN <<event>>
    ELSE IF sorted[Len(sorted)].time <= event.time
         THEN Append(sorted, event)
         ELSE Append(sort_insert(SubSeq(sorted, 1, Len(sorted) - 1), event),
                     sorted[Len(sorted)])

RECURSIVE sort_from(_, _, _)
sort_from(tt, i, sorted) ==
    IF i > Len(tt) THEN sorted
    ELSE sort_from(tt, i + 1, sort_insert(sorted, tt[i]))

\* Mutant: the sort is left out.
sort_timetable_skipped(tt) == tt

sort_timetable(tt) == sort_from(tt, 1, <<>>)

\* Index of the first event whose time equals `time`, 0 when the for loop
\* runs to its else branch.
find_time(tt, time) ==
    IF \E i \in 1..Len(tt) : tt[i].time = time
    THEN CHOOSE i \in 1..Len(tt) :
            /\ tt[i].time = time
            /\ \A j \in 1..(i - 1) : tt[j].time # time
    ELSE 0

remove_at(tt, i) == SubSeq(tt, 1, i - 1) \o SubSeq(tt, i + 1, Len(tt))

\* The state property's loop, from event i on, with `prev` as it stands.
RECURSIVE state_walk(_, _, _, _)
state_walk(tt, i, prev, time) ==
    IF i > Len(tt) THEN prev.state
    ELSE IF prev.time <= time /\ time < tt[i].time
         THEN prev.state
         ELSE state_walk(tt, i + 1, tt[i], time)

\* Mutant: before the first event the state does not wrap round from the
\* last event.
State_no_wrap(tt, time) ==
    IF tt = <<>> THEN STATE_OFF
    ELSE state_walk(tt, 1, StateEvent(MIDNIGHT, STATE_OFF), time)

\* InputTimeTable.state at time of day `time`.
State(tt, time) ==
    IF tt = <<>> THEN STATE_OFF
    ELSE state_walk(tt, 1, StateEvent(MIDNIGHT, tt[Len(tt)].state), time)

\* _schedule_update's loop, from event i on: the instant of the next change.
RECURSIVE next_change_walk(_, _, _, _)
next_change_walk(tt, i, prev, dt) ==
    IF i > Len(tt)
    THEN combine(date_of(dt) + 1, tt[1].time)
    ELSE IF prev <= time_of(dt) /\ time_of(dt) < tt[i].time
         THEN combine(date_of(dt), tt[i].time)
         ELSE next_change_walk(tt, i + 1, tt[i].time, dt)

\* Mutant: an event at exactly the current time still counts as ahead.
RECURSIVE next_change_walk_inclusive(_, _, _, _)
next_change_walk_inclusive(tt, i, prev, dt) ==
    IF i > Len(tt)
    THEN combine(date_of(dt) + 1, tt[1].time)
    ELSE IF prev <= time_of(dt) /\ time_of(dt) <= tt[i].time
         THEN combine(date_of(dt), tt[i].time)
         ELSE next_change_walk_inclusive(tt, i + 1, tt[i].time, dt)

next_change_inclusive(tt, dt) == next_change_walk_inclusive(tt, 1, MIDNIGHT, dt)

\* Mutant: the target is always the first event, tomorrow.
next_change_first(tt, dt) == combine(date_of(dt) + 1, tt[1].time)

next_change(tt, dt) == next_change_walk(tt, 1, MIDNIGHT, dt)

timetable_to_attribute(tt) ==
    [i \in 1..Len(tt) |-> Attribute(tt[i].time, tt[i].state)]

\* Mutant: the events are stored in the snapshot's order.
timetable_from_attribute_unsorted(attr) ==
    [i \in 1..Len(attr) |->
        StateEvent(fromisoformat(attr[i].time), attr[i].state)]

timetable_from_attribute(attr) ==
    sort_timetable([i \in 1..Len(attr) |->
                       StateEvent(fromisoformat(attr[i].time), attr[i].state)])

(* ------------------------------- state -------------------------------- *)

VARIABLES
    lifecycle,      \* "constructed" until async_added_to_hass has run, then "added"
    last_state,     \* what async_get_last_state will return: [state, timetable]
    timetable,      \* self._timetable
    event_unsub,    \* self._event_unsub: <<>> for None, <<id>> for a timer's unsub
    timers,         \* the host's outstanding one-shot timers: records [id, at]
    ha_state,       \* the state last written by async_write_ha_state
    ha_attributes,  \* the "timetable" attribute last written with it
    now,            \* dt_util.now()
    call            \* the call made by the last step, and what it did

vars == << lifecycle, last_state, timetable, event_unsub, timers,
           ha_state, ha_attributes, now, call >>

NoHandle == <<>>

\* The entity and the host objects it acts on at the start of a call, with
\* the trace of the call (raised, wrote, cancelled, armed, and the steps of
\* _update_state in the order they ran) cleared.
Self ==
    [ timetable     |-> timetable,
      event_unsub   |-> event_unsub,
      timers        |-> timers,
      ha_state      |-> ha_state,
      ha_attributes |-> ha_attributes,
      raised        |-> FALSE,
      wrote         |-> FALSE,
      cancelled     |-> FALSE,
      armed         |-> FALSE,
      steps         |-> <<>> ]

\* event_helper.async_track_point_in_time: a new outstanding timer, whose
\* unsub handle is its id.
new_timer_id(pending) ==
    CHOOSE id \in 1..(Cardinality(pending) + 1) :
        /\ \A h \in pending : h.id # id
        /\ \A j \in 1..(id - 1) : \E h \in pending : h.id = j

async_track_point_in_time(self, point) ==
    LET id == new_timer_id(self.timers)
    IN  [self EXCEPT !.timers = @ \cup {[id |-> id, at |-> point]},
                     !.event_unsub = <<id>>,
                     !.armed = TRUE]

\* Mutant: the handle is forgotten without being called.
cancel_event_unsub_forgotten(self) == [self EXCEPT !.event_unsub = NoHandle]

\* Calling the unsub handle: the timer, if still outstanding, is dropped.
cancel_event_unsub(self) ==
    IF self.event_unsub # NoHandle
    THEN [self EXCEPT
            !.timers = {h \in @ : h.id # self.event_unsub[1]},
            !.cancelled = \E h \in self.timers : h.id = self.event_unsub[1],
            !.event_unsub = NoHandle]
    ELSE self

\* Mutant: a single event arms a timer too.
schedule_update_single(self, dt) ==
    LET s == cancel_event_unsub(self)
    IN  IF Len(s.timetable) = 0
        THEN s
        ELSE async_track_point_in_time(s, next_change(s.timetable, dt))

\* Mutant: the timer is cancelled and never armed again.
schedule_update_never(self, dt) == cancel_event_unsub(self)

schedule_update(self, dt) ==
    LET s == cancel_event_unsub([self EXCEPT !.steps = Append(@, "schedule")])
    IN  IF Len(s.timetable) = 0 \/ Len(s.timetable) = 1
        THEN s
        ELSE async_track_point_in_time(s, next_change(s.timetable, dt))

\* async_write_ha_state reads the state and state_attributes properties.
async_write_ha_state(self, dt) ==
    [self EXCEPT !.ha_state = State(self.timetable, time_of(dt)),
                 !.ha_attributes = timetable_to_attribute(self.timetable),
                 !.wrote = TRUE,
                 !.steps = Append(@, "write")]

\* Mutant: the state is written before the timer is scheduled.
update_state_write_first(self, dt) ==
    schedule_update(async_write_ha_state(self, dt), dt)

update_state(self, dt) == async_write_ha_state(schedule_update(self, dt), dt)

\* Mutant: the state is updated before the snapshot is loaded.
async_added_to_hass_late_load(self, last, dt) ==
    IF last.state /\ last.timetable # <<>>
    THEN [update_state(self, dt) EXCEPT
            !.timetable = timetable_from_attribute(last.timetable)]
    ELSE update_state(self, dt)

async_added_to_hass(self, last, dt) ==
    IF last.state /\ last.timetable # <<>>
    THEN update_state(
            [self EXCEPT !.timetable = timetable_from_attribute(last.timetable)],
            dt)
    ELSE update_state(self, dt)

\* Mutant: the event is appended without looking for one at that time.
async_set_append(self, time, state, dt) ==
    update_state(
        [self EXCEPT !.timetable =
            sort_timetable(Append(@, StateEvent(time, state)))],
        dt)

async_set(self, time, state, dt) ==
    LET i == find_time(self.timetable, time)
    IN  IF i # 0
        THEN update_state([self EXCEPT !.timetable[i].state = state], dt)
        ELSE update_state(
                [self EXCEPT !.timetable =
                    sort_timetable(Append(@, StateEvent(time, state)))],
                dt)

\* Mutant: the state is updated before the error is raised.
async_unset_updates(self, time, dt) ==
    LET i == find_time(self.timetable, time)
    IN  IF i # 0
        THEN update_state([self EXCEPT !.timetable = remove_at(@, i)], dt)
        ELSE [update_state(self, dt) EXCEPT !.raised = TRUE]

async_unset(self, time, dt) ==
    LET i == find_time(self.timetable, time)
    IN  IF i # 0
        THEN update_state([self EXCEPT !.timetable = remove_at(@, i)], dt)
        ELSE [self EXCEPT !.raised = TRUE]

\* Mutant: the events are cleared and the state is not updated.
async_reset_silent(self, dt) == [self EXCEPT !.timetable = <<>>]

async_reset(self, dt) == update_state([self EXCEPT !.timetable = <<>>], dt)

\* Mutant: the list is stored before it is checked.
async_reconfig_stores(self, new, dt) ==
    IF Len(new) > Cardinality({new[i].time : i \in 1..Len(new)})
    THEN [self EXCEPT !.timetable = sort_timetable(new), !.raised = TRUE]
    ELSE update_state([self EXCEPT !.timetable = sort_timetable(new)], dt)

async_reconfig(self, new, dt) ==
    IF Len(new) > Cardinality({new[i].time : i \in 1..Len(new)})
    THEN [self EXCEPT !.raised = TRUE]
    ELSE update_state([self EXCEPT !.timetable = sort_timetable(new)], dt)

async_update_config(self, dt) == update_state(self, dt)

(* ------------------------------ actions -------------------------------- *)

NoAttr == ""

\* Whether two entries of a reconfig list name the same time.
SameTimeTwice(new) ==
    \E i, j \in 1..Len(new) : i < j /\ new[i].time = new[j].time

\* What the step's call was (op, the time and state it was given, whether
\* the list it was given named a time twice) and what it did.
Call(op, time, state, twice, self) ==
    [ op |-> op, time |-> time, state |-> state, twice |-> twice,
      raised |-> self.raised, wrote |-> self.wrote,
      cancelled |-> self.cancelled, armed |-> self.armed,
      steps |-> self.steps ]

Apply(self) ==
    /\ timetable' = self.timetable
    /\ event_unsub' = self.event_unsub
    /\ timers' = self.timers
    /\ ha_state' = self.ha_state
    /\ ha_attributes' = self.ha_attributes

NoSnapshot == [state |-> FALSE, timetable |-> <<>>]

\* Every attribute list the host may hand back, entries in any order and
\* times possibly repeated.
Snapshots ==
    {NoSnapshot}
        \cup {[state |-> TRUE, timetable |-> a] : a \in SeqsUpTo(Attributes, MaxSnapshot)}

\* The snapshots of timetables without a repeated time, entries in any order.
SoundSnapshots ==
    {snap \in Snapshots :
        \A i, j \in 1..Len(snap.timetable) :
            i # j => snap.timetable[i].time # snap.timetable[j].time}

ReconfigLists == SeqsUpTo(Events, MaxReconfig)

Constructed ==
    /\ lifecycle = "constructed"
    /\ timetable = <<>>
    /\ event_unsub = NoHandle
    /\ timers = {}
    /\ ha_state = None
    /\ ha_attributes = <<>>
    /\ now \in DayTimes
    /\ call = Call("init", MIDNIGHT, NoAttr, FALSE, Self)

\* The host holds no snapshot or one of a timetable without a repeated time.
Init ==
    /\ Constructed
    /\ last_state \in SoundSnapshots

\* The host may hold any snapshot, also one that repeats a time.
InitAnySnapshot ==
    /\ Constructed
    /\ last_state \in Snapshots

\* The host holds no snapshot: the timetable starts empty.
InitFresh ==
    /\ Constructed
    /\ last_state = NoSnapshot

AddedToHass ==
    /\ lifecycle = "constructed"
    /\ LET r == async_added_to_hass(Self, last_state, now)
       IN  /\ Apply(r)
           /\ call' = Call("added", MIDNIGHT, NoAttr, FALSE, r)
    /\ lifecycle' = "added"
    /\ last_state' = NoSnapshot
    /\ UNCHANGED now

Set ==
    /\ lifecycle = "added"
    /\ \E time \in DayTimes, state \in States :
         LET r == async_set(Self, time, state, now)
         IN  /\ Apply(r)
             /\ call' = Call("set", time, state, FALSE, r)
    /\ UNCHANGED << lifecycle, last_state, now >>

Unset ==
    /\ lifecycle = "added"
    /\ \E time \in DayTimes :
         LET r == async_unset(Self, time, now)
         IN  /\ Apply(r)
             /\ call' = Call("unset", time, NoAttr, FALSE, r)
    /\ UNCHANGED << lifecycle, last_state, now >>

Reset ==
    /\ lifecycle = "added"
    /\ LET r == async_reset(Self, now)
       IN  /\ Apply(r)
           /\ call' = Call("reset", MIDNIGHT, NoAttr, FALSE, r)
    /\ UNCHANGED << lifecycle, last_state, now >>

Reconfig ==
    /\ lifecycle = "added"
    /\ \E new \in ReconfigLists :
         LET r == async_reconfig(Self, new, now)
         IN  /\ Apply(r)
             /\ call' = Call("reconfig", MIDNIGHT, NoAttr, SameTimeTwice(new), r)
    /\ UNCHANGED << lifecycle, last_state, now >>

UpdateConfig ==
    /\ lifecycle = "added"
    /\ LET r == async_update_config(Self, now)
       IN  /\ Apply(r)
           /\ call' = Call("update_config", MIDNIGHT, NoAttr, FALSE, r)
    /\ UNCHANGED << lifecycle, last_state, now >>

\* The host runs a due timer's action, self._update_state; the timer is
\* one-shot, so it is no longer outstanding when the action runs.
TimerFire ==
    /\ \E h \in timers :
         /\ h.at <= now
         /\ LET r == update_state([Self EXCEPT !.timers = @ \ {h}], now)
            IN  /\ Apply(r)
                /\ call' = Call("timer", MIDNIGHT, NoAttr, FALSE, r)
    /\ UNCHANGED << lifecycle, last_state, now >>

\* Time passes to the next instant at which the clock is observed.  The
\* host runs a timer's action at its target instant, so the clock does not
\* move on while a timer is due.  Past midnight the new day is date 0.
Tick ==
    /\ \A h \in timers : h.at > now
    /\ IF now + TickSeconds \in DayTimes
       THEN /\ now' = now + TickSeconds
            /\ timers' = timers
       ELSE /\ now' = MIDNIGHT
            /\ timers' = {[h EXCEPT !.at = @ - SecondsPerDay] : h \in timers}
    /\ call' = Call("tick", MIDNIGHT, NoAttr, FALSE, Self)
    /\ UNCHANGED << lifecycle, last_state, timetable, event_unsub,
                    ha_state, ha_attributes >>

Next ==
    \/ AddedToHass
    \/ Set
    \/ Unset
    \/ Reset
    \/ Reconfig
    \/ UpdateConfig
    \/ TimerFire
    \/ Tick

Spec == Init /\ [][Next]_vars

SpecFresh == InitFresh /\ [][Next]_vars

SpecAnySnapshot == InitAnySnapshot /\ [][Next]_vars

\* The host removes the entity.  InputTimeTable defines no
\* async_will_remove_from_hass, so removal runs none of its code: the
\* handle it holds is not called.  Service calls no longer reach the entity;
\* the host's timers and the clock go on.
Remove ==
    /\ lifecycle = "added"
    /\ lifecycle' = "removed"
    /\ call' = Call("remove", MIDNIGHT, NoAttr, FALSE, Self)
    /\ UNCHANGED << last_state, timetable, event_unsub, timers,
                    ha_state, ha_attributes, now >>

NextTeardown ==
    \/ Next
    \/ Remove

SpecTeardown == Init /\ [][NextTeardown]_vars

\* The clock moves on, within the day, while a timer is due: the host runs
\* the timer's action late.
LateTick ==
    /\ \E h \in timers : h.at <= now
    /\ now + TickSeconds \in DayTimes
    /\ now' = now + TickSeconds
    /\ call' = Call("tick", MIDNIGHT, NoAttr, FALSE, Self)
    /\ UNCHANGED << lifecycle, last_state, timetable, event_unsub, timers,
                    ha_state, ha_attributes >>

NextLate ==
    \/ Next
    \/ LateTick

SpecLate == Init /\ [][NextLate]_vars

\* The entity is loaded from its snapshot and no service is called again:
\* only the clock and the host's timers act.  The clock keeps going and the
\* host runs a timer's action once it is due.
NextQuiet ==
    \/ AddedToHass
    \/ TimerFire
    \/ Tick

SpecQuiet ==
    /\ Init
    /\ [][NextQuiet]_vars
    /\ WF_vars(Tick)
    /\ WF_vars(TimerFire)

(* ------------------------------ properties ----------------------------- *)

StrictlyAscending(tt) ==
    \A i \in 1..(Len(tt) - 1) : tt[i].time < tt[i + 1].time

UniqueTimes(tt) ==
    \A i, j \in 1..Len(tt) : i # j => tt[i].time # tt[j].time

EventsAt(tt, time) == {i \in 1..Len(tt) : tt[i].time = time}

EventsNotAt(tt, time) == {tt[i] : i \in {j \in 1..Len(tt) : tt[j].time # time}}

Due == {h \in timers : h.at <= now}

\* The state a timetable stands for at a time of day: OFF when empty, else
\* the state of the event with the greatest time <= `time`, else (no such
\* event) the state of the last event.
ExpectedState(tt, time) ==
    IF tt = <<>> THEN STATE_OFF
    ELSE IF \E i \in 1..Len(tt) : tt[i].time <= time
         THEN LET i == CHOOSE k \in 1..Len(tt) :
                          /\ tt[k].time <= time
                          /\ \A j \in 1..Len(tt) :
                                tt[j].time <= time => tt[j].time <= tt[k].time
              IN  tt[i].state
         ELSE tt[Len(tt)].state

\* The instant of the next boundary after `dt`: today at the earliest event
\* time strictly after dt's time of day, else tomorrow at the first event.
ExpectedTarget(tt, dt) ==
    LET ahead == {tt[i].time : i \in {j \in 1..Len(tt) : tt[j].time > time_of(dt)}}
    IN  IF ahead # {}
        THEN combine(date_of(dt), CHOOSE t \in ahead : \A u \in ahead : t <= u)
        ELSE combine(date_of(dt) + 1, tt[1].time)

Frame == << timetable, event_unsub, timers, ha_state, ha_attributes >>

\* C1: starting from an empty timetable, after every set, unset, reset and
\* reconfig call, successful or failing, the stored events are strictly
\* ascending by time.
C1_SortInvariant == StrictlyAscending(timetable)

\* A set put an event in front of an earlier stored one.
C1_Witness ==
    /\ call.op = "set"
    /\ Len(timetable) >= 3
    /\ timetable[1].time = call.time

\* C2: in every reachable state, also after a restart snapshot has been
\* loaded and mutations applied, no two stored events have the same time.
C2_NoDuplicateTimes == UniqueTimes(timetable)

\* C3: for a strictly sorted timetable the computed state at every time of
\* day is OFF when the table is empty, else the state of the event with the
\* greatest time <= t, else the state of the last event; and that is the
\* state a state update writes.
C3_StateAtInstant ==
    StrictlyAscending(timetable) =>
        /\ \A t \in DayTimes : State(timetable, t) = ExpectedState(timetable, t)
        /\ call.wrote => ha_state = ExpectedState(timetable, time_of(now))

\* A state update before the first of several events wrote the last
\* event's state, which differs from the first event's.
C3_Witness ==
    /\ call.wrote
    /\ StrictlyAscending(timetable)
    /\ Len(timetable) >= 2
    /\ time_of(now) < timetable[1].time
    /\ timetable[1].state # timetable[Len(timetable)].state
    /\ ha_state = timetable[Len(timetable)].state

\* C4: at most one timer is outstanding, and it is the one the entity
\* holds the handle of.
C4_SingleTimer ==
    /\ Cardinality(timers) <= 1
    /\ \A h \in timers : event_unsub = <<h.id>>

\* A call cancelled an outstanding timer and armed a new one.
C4_Witness == call.cancelled /\ call.armed /\ timers # {}

\* C5: a timer is outstanding if and only if the timetable holds at least
\* two events.
C5_TimerIffTwoEvents == (timers # {}) <=> (Len(timetable) >= 2)

\* A call that left one event cancelled the timer and armed none.
C5_Witness ==
    /\ call.cancelled
    /\ ~call.armed
    /\ Len(timetable) = 1
    /\ timers = {}

\* C6: a timer armed at instant now has as its target today at the earliest
\* event time strictly after now's time of day, else tomorrow at the first
\* event's time.
C6_TimerTarget ==
    call.armed => \A h \in timers : h.at = ExpectedTarget(timetable, now)

\* A timer was armed for tomorrow, every event's time having passed today.
C6_Witness ==
    /\ call.armed
    /\ Len(timetable) >= 2
    /\ timetable[1].time > MIDNIGHT
    /\ \A i \in 1..Len(timetable) : timetable[i].time <= time_of(now)
    /\ \E h \in timers : h.at = combine(date_of(now) + 1, timetable[1].time)

\* C7: timers firing at their target instants, whenever no timer is due the
\* state last written equals the state computed from the timetable now.
C7_PublishedIsCurrent ==
    (lifecycle = "added" /\ Due = {}) =>
        ha_state = State(timetable, time_of(now))

\* A timer fired at the first event's time, where the state changes from
\* the last event's, and the first event's state was written.
C7_Witness ==
    /\ call.op = "timer"
    /\ Due = {}
    /\ StrictlyAscending(timetable)
    /\ timetable[1].time = time_of(now)
    /\ timetable[1].state # timetable[Len(timetable)].state
    /\ ha_state = timetable[1].state

\* C8: unset(t) with no stored event at t raises, and leaves the events, the
\* written state and the timer as they were, writing nothing.
C8_UnsetFailureIsPure ==
    [][ (call'.op = "unset" /\ EventsAt(timetable, call'.time) = {}) =>
            /\ call'.raised
            /\ ~call'.wrote
            /\ UNCHANGED Frame ]_vars

\* A failed unset with a timer outstanding.
C8_Witness ==
    /\ call.op = "unset"
    /\ call.raised
    /\ timers # {}

\* C9: reconfig with a list naming a time twice raises, and leaves the
\* events, the written state and the timer as they were, writing nothing.
C9_ReconfigAtomic ==
    [][ (call'.op = "reconfig" /\ call'.twice) =>
            /\ call'.raised
            /\ ~call'.wrote
            /\ UNCHANGED Frame ]_vars

\* A rejected reconfig with events stored and a timer outstanding.
C9_Witness ==
    /\ call.op = "reconfig"
    /\ call.twice
    /\ call.raised
    /\ timers # {}

\* C10: on a timetable with unique times set(t, s) succeeds; the number of
\* events is unchanged if an event at t existed and grows by one otherwise;
\* events at other times are kept; exactly one event at t remains, with
\* state s.
C10_SetIsUpsert ==
    [][ (call'.op = "set" /\ UniqueTimes(timetable)) =>
            /\ ~call'.raised
            /\ Len(timetable') =
                  IF EventsAt(timetable, call'.time) # {}
                  THEN Len(timetable) ELSE Len(timetable) + 1
            /\ EventsNotAt(timetable', call'.time) = EventsNotAt(timetable, call'.time)
            /\ Cardinality(EventsAt(timetable', call'.time)) = 1
            /\ \A i \in EventsAt(timetable', call'.time) :
                  timetable'[i].state = call'.state ]_vars

\* A set on a timetable of unique times that holds events at other times.
C10_Witness ==
    /\ call.op = "set"
    /\ ~call.raised
    /\ UniqueTimes(timetable)
    /\ Len(timetable) >= 3

\* C11: for every time t and state s, set(t, s) called twice in a row leaves
\* the events as one call leaves them.
C11_SetIdempotent ==
    \A time \in DayTimes, state \in States :
        LET once == async_set(Self, time, state, now)
        IN  async_set(once, time, state, now).timetable = once.timetable

\* A set was made, on a timetable holding other events, and the same set
\* made again would leave the events as they are.
C11_Witness ==
    /\ call.op = "set"
    /\ Len(timetable) >= 2
    /\ async_set(Self, call.time, call.state, now).timetable = timetable

\* The events of a list, as a set.
EventSet(tt) == {tt[i] : i \in 1..Len(tt)}

\* C12: reconfig with a list of distinct times, in any order, succeeds and
\* stores exactly the list's events in ascending order of time, whatever
\* was stored before; the empty list stores nothing.
C12_ReconfigStoresInput ==
    \A new \in ReconfigLists :
        ~SameTimeTwice(new) =>
            LET r == async_reconfig(Self, new, now)
            IN  /\ ~r.raised
                /\ Len(r.timetable) = Len(new)
                /\ EventSet(r.timetable) = EventSet(new)
                /\ StrictlyAscending(r.timetable)
                /\ new = <<>> => r.timetable = <<>>

\* A reconfig succeeded and stored several events.
C12_Witness ==
    /\ call.op = "reconfig"
    /\ ~call.raised
    /\ ~call.twice
    /\ Len(timetable) >= 2
    /\ StrictlyAscending(timetable)

\* C13: once the entity is removed no timer is outstanding, so no timer
\* action runs against the removed instance.
C13_TeardownCancelsTimer ==
    lifecycle = "removed" => (timers = {} /\ call.op # "timer")

\* The rearrangements of a list.
Permutations_of(list) ==
    {[i \in 1..Len(list) |-> list[p[i]]] :
        p \in {q \in [1..Len(list) -> 1..Len(list)] :
                 \A i, j \in 1..Len(list) : i # j => q[i] # q[j]}}

\* Times of day whose hour, minute and second fields take their extremes.
FieldExtremes ==
    {h * 3600 + m * 60 + s : h \in {0, 23}, m \in {0, 59}, s \in {0, 59}}

\* C14: for a timetable of unique times in ascending order, serializing,
\* deserializing and serializing again gives the first serialization, and
\* deserializing any rearrangement of the serialization gives the timetable;
\* a time's text parses back to the time whatever its fields.
C14_RoundTrip ==
    StrictlyAscending(timetable) =>
        LET attr == timetable_to_attribute(timetable)
        IN  /\ timetable_to_attribute(timetable_from_attribute(attr)) = attr
            /\ \A other \in Permutations_of(attr) :
                  timetable_from_attribute(other) = timetable
            /\ \A time \in FieldExtremes \cup DayTimes :
                  fromisoformat(isoformat(time)) = time

\* A timetable of several events was loaded from a snapshot and written
\* back as attributes.
C14_Witness ==
    /\ call.op = "added"
    /\ Len(timetable) >= 2
    /\ StrictlyAscending(timetable)
    /\ ha_attributes = timetable_to_attribute(timetable)

\* C15: reset succeeds and leaves no events, the written state OFF and no
\* timer outstanding, nor a handle held.
C15_ResetClears ==
    call.op = "reset" =>
        /\ ~call.raised
        /\ call.wrote
        /\ timetable = <<>>
        /\ ha_state = STATE_OFF
        /\ ha_attributes = <<>>
        /\ timers = {}
        /\ event_unsub = NoHandle

\* A reset cancelled the timer that was outstanding.
C15_Witness ==
    /\ call.op = "reset"
    /\ call.cancelled
    /\ timetable = <<>>

\* C16: with two or more events and no further call, every timer firing
\* arms a new timer, and for every event the timer fires again at that
\* event's time and the state of that instant is written, day after day.
C16_SelfPerpetuating ==
    /\ [](call.op = "timer" => (call.armed /\ call.wrote /\ timers # {}))
    /\ \A time \in DayTimes :
          (lifecycle = "added" /\ Len(timetable) >= 2
              /\ EventsAt(timetable, time) # {})
            ~> (/\ call.op = "timer"
                /\ now = time
                /\ call.armed
                /\ ha_state = ExpectedState(timetable, time))

\* The timer fired at the last event of the day and was armed for tomorrow.
C16_Witness ==
    /\ call.op = "timer"
    /\ call.armed
    /\ Len(timetable) >= 2
    /\ timetable[Len(timetable)].time = now
    /\ \E h \in timers : h.at = combine(1, timetable[1].time)

\* C17 as stated: on every timer firing the state is written first and the
\* next timer is scheduled after it.
C17_WriteThenSchedule ==
    call.op = "timer" => call.steps = <<"write", "schedule">>

\* C17 as amended: on every timer firing the next timer is scheduled first
\* and the state is written after it, each once.
C17_ScheduleThenWrite ==
    call.op = "timer" => call.steps = <<"schedule", "write">>

\* A timer fired, a new one was armed and the state was written.
C17_Witness ==
    /\ call.op = "timer"
    /\ call.armed
    /\ call.wrote
    /\ Len(call.steps) = 2

\* C18: a set(t, s) on a timetable holding two or more events at t, as a
\* snapshot with a repeated time leaves it, leaves a single event at t, and
\* the state computed at t is s.
C18_SetCollapsesDuplicates ==
    [][ (call'.op = "set"
            /\ Cardinality(EventsAt(timetable, call'.time)) >= 2) =>
            /\ Cardinality(EventsAt(timetable', call'.time)) = 1
            /\ State(timetable', call'.time) = call'.state ]_vars

\* C19: at startup the timetable becomes the snapshot's events in ascending
\* order of time (none without a snapshot or with an empty one); the state
\* of that timetable at that instant is then written, once, after the timer
\* has been scheduled for it: armed for the next boundary with two or more
\* events, not armed otherwise.
C19_Startup ==
    [][ call'.op = "added" =>
          LET snap == IF last_state.state THEN last_state.timetable ELSE <<>>
          IN  /\ Len(timetable') = Len(snap)
              /\ {Attribute(e.time, e.state) : e \in EventSet(timetable')}
                    = EventSet(snap)
              /\ StrictlyAscending(timetable')
              /\ ~call'.raised
              /\ call'.steps = <<"schedule", "write">>
              /\ ha_state' = ExpectedState(timetable', time_of(now))
              /\ ha_attributes' = timetable_to_attribute(timetable')
              /\ IF Len(snap) >= 2
                 THEN \E h \in timers' :
                        /\ timers' = {h}
                        /\ h.at = ExpectedTarget(timetable', now)
                 ELSE timers' = {} ]_vars

\* A snapshot of several events was loaded, the state written and the
\* timer armed.
C19_Witness ==
    /\ call.op = "added"
    /\ call.armed
    /\ call.wrote
    /\ Len(timetable) >= 2
    /\ timetable[1].state # timetable[2].state

\* C20: a timer is armed for an instant strictly later than the instant it
\* is armed at, and the timer armed by a firing, at or after the target of
\* the one that fired, is for a later instant than that target, also when
\* the firing instant is exactly an event's time.
C20_TargetAfterNow ==
    [][ /\ call'.armed => \A h \in timers' : h.at > now
        /\ call'.op = "timer" =>
              \A fired \in timers, h \in timers' :
                  fired.at <= now /\ fired.at < h.at ]_vars

\* A timer fired at exactly an event's time, where the state changes, and
\* the timer then armed is for a later instant.
C20_Witness ==
    /\ call.op = "timer"
    /\ call.armed
    /\ EventsAt(timetable, now) # {}
    /\ ha_state # ExpectedState(timetable, now - TickSeconds)
    /\ \E h \in timers : h.at > now

====
